---- MODULE Spec2Model ----
(***************************************************************************)
(* Model of src/app.py: the NetworkMonitor (risk scoring, alert creation), *)
(* the request handlers that drive it, the cache-aside reads and the       *)
(* background_monitor loop.  Request handlers run on concurrent threads;   *)
(* the background monitor is one more thread.  A handler is split into     *)
(* steps wherever it reads or writes the shared lists between two points   *)
(* at which the interpreter may switch threads.                            *)
(*                                                                         *)
(* models.py and cache_manager.py are not part of the sources at hand:     *)
(* their operations are modelled from the specification (sections 4.3, 6   *)
(* and 7) and from the way app.py uses their results.                      *)
(***************************************************************************)
EXTENDS Integers, Sequences, FiniteSets, TLC

\* ----------------------------------------------------------------- bounds
MaxAlerts == 1
MaxIndicators == 1
MaxClock == 48
ClockStep == 24

\* Request threads that can be inside a handler at the same time.
Threads == {1, 2}

\* ------------------------------------------------------ program constants
KNOWN_THREAT_SCORE == 80
VOLUME_LIMIT == 1000
VOLUME_SCORE == 30
AUTH_LIMIT == 10
AUTH_SCORE == 50
PORT_SCORE == 20
ALERT_THRESHOLD == 50
HIGH_THRESHOLD == 80
STALE_HOURS == 24
MIRROR_SCORE_HIGH == 80
MIRROR_SCORE_OTHER == 50

\* --------------------------------------------------------------- helpers
\* dict.get(k, default) on a JSON object modelled as a function whose domain
\* is the set of keys present.
Get(d, k, default) == IF k \in DOMAIN d THEN d[k] ELSE default

EmptyDict == [k \in {} |-> 0]

\* Python truthiness of the values that occur: empty string, empty list,
\* empty dict and zero are false.
TruthyStr(s) == s # ""
TruthySeq(s) == Len(s) > 0
TruthyDict(d) == DOMAIN d # {}

IPs == {"10.0.0.1", "10.0.0.2"}

\* f"Known threat IP: {source_ip}"
KnownThreatLabel(ip) ==
    IF ip = "10.0.0.1" THEN "Known threat IP: 10.0.0.1"
    ELSE IF ip = "10.0.0.2" THEN "Known threat IP: 10.0.0.2"
    ELSE "Known threat IP: ?"

\* Option values: <<>> is None, <<v>> is v.
None == <<>>
Some(v) == <<v>>

\* ------------------------------------------------------ cache_manager
\* The cache holds one entry per resource kind; an entry is a serialised
\* snapshot taken when it was written.  While the backend is unreachable
\* every read misses and every write is a no-op.
EmptyCache == [stats |-> None, indicators |-> None]

cache_get(c, up, kind) == IF up THEN c[kind] ELSE None

cache_set(c, up, kind, value) == IF up THEN [c EXCEPT ![kind] = Some(value)] ELSE c

\* cache_manager.get_threat_indicators(): the cached list, or an empty list.
cached_threat_indicators(c, up) ==
    IF cache_get(c, up, "indicators") = None THEN <<>> ELSE cache_get(c, up, "indicators")[1]

\* cache_manager.check_threat_indicator(ip): is ip an active indicator of the
\* cached indicator snapshot.
check_threat_indicator(c, up, ip) ==
    \E i \in 1..Len(cached_threat_indicators(c, up)) :
        /\ cached_threat_indicators(c, up)[i].value = ip
        /\ cached_threat_indicators(c, up)[i].active

\* ------------------------------------------------------------------ state
VARIABLES
    alerts,             \* network_monitor.alerts
    threat_indicators,  \* network_monitor.threat_indicators
    network_stats,      \* network_monitor.network_stats
    cache,              \* the entries held by the cache backend
    cacheUp,            \* whether the cache backend is reachable
    dbConfigured,       \* whether DATABASE_URL is set (db_manager is not None)
    clock,              \* datetime.now(), in hours
    pc,                 \* per request thread: the point its handler has reached
    loc,                \* per request thread: the handler's local variables
    bg,                 \* the background_monitor thread: position and locals
    prevSweep,          \* history: the last sweep that ran undisturbed, if any
    sinceClear,         \* history: per kind, reads served since clear_cache('*')
    scored,             \* history: the first call of analyze_traffic made on its own
    last                \* the step just taken: request, response and calls made

vars == <<alerts, threat_indicators, network_stats, cache, cacheUp, dbConfigured,
          clock, pc, loc, bg, prevSweep, sinceClear, scored, last>>

\* ----------------------------------------------- NetworkMonitor.analyze_traffic
\* One dict kept between the calls in place of the new one of 55-60.
NewAnalysis_shared(now) ==
    IF last.op = "analyze_traffic"
    THEN [last.body EXCEPT !.timestamp = now]
    ELSE [timestamp |-> now, risk_score |-> 0, threats_detected |-> <<>>,
          recommendations |-> <<>>]

\* Lines 55-60: a new dict for every call.
NewAnalysis(now) ==
    [timestamp |-> now, risk_score |-> 0, threats_detected |-> <<>>, recommendations |-> <<>>]

Triggered(a, delta, label, recommendation) ==
    [a EXCEPT !.risk_score = @ + delta,
              !.threats_detected = Append(@, label),
              !.recommendations = Append(@, recommendation)]

rule_known_threat(a, td, c, up) ==
    IF TruthyStr(Get(td, "source_ip", "")) /\ check_threat_indicator(c, up, td.source_ip)
    THEN Triggered(a, KNOWN_THREAT_SCORE, KnownThreatLabel(td.source_ip), "Block IP immediately")
    ELSE a

volume_condition(td) == Get(td, "connection_count", 0) > VOLUME_LIMIT

rule_volume(a, td) ==
    IF volume_condition(td)
    THEN Triggered(a, VOLUME_SCORE, "High connection volume",
                   "Investigate source IP for DDoS activity")
    ELSE a

\* "elif" in place of the "if" of line 76.
rule_failed_auth_elif(a, td) ==
    IF volume_condition(td) THEN a
    ELSE IF Get(td, "failed_auth_attempts", 0) > AUTH_LIMIT
    THEN Triggered(a, AUTH_SCORE, "Multiple failed authentication attempts",
                   "Implement rate limiting and block suspicious IPs")
    ELSE a

rule_failed_auth(a, td) ==
    IF Get(td, "failed_auth_attempts", 0) > AUTH_LIMIT
    THEN Triggered(a, AUTH_SCORE, "Multiple failed authentication attempts",
                   "Implement rate limiting and block suspicious IPs")
    ELSE a

rule_unusual_ports(a, td) ==
    IF TruthySeq(Get(td, "unusual_ports", <<>>))
    THEN Triggered(a, PORT_SCORE, "Unusual port activity detected",
                   "Review firewall rules and port access")
    ELSE a

\* The analysis returned for traffic_data, given the cache the lookup reads.
analyze_traffic(td, c, up, now) ==
    rule_unusual_ports(
        rule_failed_auth(
            rule_volume(
                rule_known_threat(NewAnalysis(now), td, c, up), td), td), td)

\* The sample analyze_traffic hands to network_analytics.record_metric; no
\* call is made when no database is configured.
metric_sample(td, a) ==
    [metric_name |-> "traffic_analysis_risk_score",
     metric_value |-> a.risk_score,
     metric_unit |-> "score",
     source |-> "network_monitor",
     tags |-> [source_ip |-> Get(td, "source_ip", "unknown")]]

metric_calls_when_alerting(td, a, db) ==
    IF db /\ a.risk_score > ALERT_THRESHOLD THEN <<metric_sample(td, a)>> ELSE <<>>

metric_calls(td, a, db) == IF db THEN <<metric_sample(td, a)>> ELSE <<>>


\* Calls made to the collaborators by one request: record_metric samples,
\* create_event / add_indicator records (with the store's outcome) and
\* publish_event messages (with the backend's outcome).
NoIO == [metrics |-> <<>>, events |-> <<>>, published |-> <<>>]

Step(op, req, code, body, io) ==
    [op |-> op, req |-> req, code |-> code, body |-> body, io |-> io]

Idle == [op |-> "idle"]

NotTracked == "untracked"

\* The monitor thread between two passes of its loop, inside time.sleep.
Asleep == [pc |-> "sleep", i |-> 0, now |-> 0, cutoff |-> 0, clean |-> FALSE, before |-> <<>>]

Init ==
    /\ alerts = <<>>
    /\ threat_indicators = <<>>
    /\ network_stats = [total_connections |-> 0, suspicious_connections |-> 0,
                        blocked_attempts |-> 0, last_updated |-> 0]
    /\ cache = EmptyCache
    /\ cacheUp = TRUE
    /\ dbConfigured \in BOOLEAN
    /\ clock = 0
    /\ pc = [t \in Threads |-> "idle"]
    /\ loc = [t \in Threads |-> Idle]
    /\ bg = Asleep
    /\ prevSweep = None
    /\ sinceClear = [stats |-> NotTracked, indicators |-> NotTracked]
    /\ scored = None
    /\ last = Step("init", EmptyDict, 0, EmptyDict, NoIO)

\* A write to the alert list by a request disturbs the sweep in progress and
\* ends the "nothing in between" period after the last one.
Disturbed == [bg EXCEPT !.clean = FALSE, !.before = <<>>]

\* ------------------------------------ POST /api/network/analyze (174-199)
TrafficData ==
    { EmptyDict,
      [source_ip |-> "10.0.0.1", failed_auth_attempts |-> 11],
      [source_ip |-> "10.0.0.1", connection_count |-> 1001, failed_auth_attempts |-> 11],
      [connection_count |-> 1001, failed_auth_attempts |-> 11, unusual_ports |-> <<22>>] }

should_alert_at_threshold(a) == a.risk_score >= ALERT_THRESHOLD

should_alert(a) == a.risk_score > ALERT_THRESHOLD

severity_for(a) == IF a.risk_score > HIGH_THRESHOLD THEN "high" ELSE "medium"

\* alert_data of lines 186-192; the description embeds the score.
alert_data_for(td, a) ==
    [severity |-> severity_for(a),
     type |-> "traffic_analysis",
     description |-> a.risk_score,
     source_ip |-> Get(td, "source_ip", "unknown"),
     destination_ip |-> Get(td, "destination_ip", "unknown")]

\* A request that takes several steps is served by the first free thread
\* (the threads are interchangeable).
Free(t) == pc[t] = "idle" /\ \A u \in Threads : u < t => pc[u] # "idle"

\* Lines 177-185: parse the body, score it, decide whether to raise an alert.
analyze_network_traffic(t, td) ==
    /\ Free(t)
    /\ IF ~TruthyDict(td)
       THEN /\ last' = Step("analyze_network_traffic", td, 400,
                            [error |-> "No traffic data provided"], NoIO)
            /\ UNCHANGED <<pc, loc>>
       ELSE LET a == analyze_traffic(td, cache, cacheUp, clock)
                io == [NoIO EXCEPT !.metrics = metric_calls(td, a, dbConfigured)]
            IN IF should_alert(a)
               THEN /\ Len(alerts) < MaxAlerts
                    /\ pc' = [pc EXCEPT ![t] = "generate_alert"]
                    /\ loc' = [loc EXCEPT ![t] =
                                  [op |-> "analyze", traffic_data |-> td, analysis |-> a,
                                   alert_data |-> alert_data_for(td, a), io |-> io,
                                   created |-> <<>>]]
                    /\ last' = Step("scored", td, 0, a, io)
               ELSE /\ last' = Step("analyze_network_traffic", td, 200,
                                    [analysis |-> a, created |-> <<>>], io)
                    /\ UNCHANGED <<pc, loc>>
    /\ UNCHANGED <<scored, alerts, threat_indicators, network_stats, cache, cacheUp,
                   dbConfigured, clock, bg, prevSweep, sinceClear>>

\* ------------------------------------ NetworkMonitor.generate_alert (98-128)
next_alert_id(as) == Len(as) + 1

\* Lines 100-109: the alert dict, its id read from the length of the list.
new_alert(as, alert_data, now) ==
    [id |-> next_alert_id(as),
     timestamp |-> now,
     severity |-> Get(alert_data, "severity", "medium"),
     type |-> Get(alert_data, "type", "unknown"),
     description |-> Get(alert_data, "description", 0),
     source_ip |-> Get(alert_data, "source_ip", ""),
     destination_ip |-> Get(alert_data, "destination_ip", ""),
     status |-> "active"]

generate_alert(t) ==
    /\ pc[t] = "generate_alert"
    /\ pc' = [pc EXCEPT ![t] = "append_alert"]
    /\ loc' = [loc EXCEPT ![t] =
                  [op |-> "analyze", traffic_data |-> loc[t].traffic_data,
                   analysis |-> loc[t].analysis, alert_data |-> loc[t].alert_data,
                   io |-> loc[t].io, created |-> <<>>,
                   alert |-> new_alert(alerts, loc[t].alert_data, clock)]]
    /\ last' = Step("generate_alert", loc[t].alert_data, 0, EmptyDict, NoIO)
    /\ UNCHANGED <<scored, alerts, threat_indicators, network_stats, cache, cacheUp,
                   dbConfigured, clock, bg, prevSweep, sinceClear>>

\* Line 111: self.alerts.append(alert).
append_alert(t) ==
    /\ pc[t] = "append_alert"
    /\ alerts' = Append(alerts, loc[t].alert)
    /\ pc' = [pc EXCEPT ![t] = "mirror_alert"]
    /\ loc' = [loc EXCEPT ![t] =
                  [op |-> "analyze", traffic_data |-> loc[t].traffic_data,
                   analysis |-> loc[t].analysis, alert_data |-> loc[t].alert_data,
                   io |-> loc[t].io, alert |-> loc[t].alert,
                   created |-> Append(loc[t].created,
                                      [alert |-> loc[t].alert, pos |-> Len(alerts) + 1])]]
    /\ bg' = Disturbed
    /\ prevSweep' = None
    /\ last' = Step("append_alert", loc[t].alert_data, 0, EmptyDict, NoIO)
    /\ UNCHANGED <<scored, threat_indicators, network_stats, cache, cacheUp, dbConfigured,
                   clock, sinceClear>>

\* The record handed to security_event.create_event (115-122).
event_for(alert_data) ==
    [event_type |-> Get(alert_data, "type", "unknown"),
     severity |-> Get(alert_data, "severity", "medium"),
     source_ip |-> Get(alert_data, "source_ip", "None"),
     destination_ip |-> Get(alert_data, "destination_ip", "None"),
     risk_score |-> IF Get(alert_data, "severity", "None") = "high"
                    THEN MIRROR_SCORE_HIGH ELSE MIRROR_SCORE_OTHER]

\* How generate_alert ends given what create_event and publish_event
\* returned: both results are discarded and the alert is returned (113-128).
generate_alert_raises_unstored(stored, published) ==
    IF stored THEN "returned" ELSE "raised"

generate_alert_raises_unpublished(stored, published) ==
    IF published THEN "returned" ELSE "raised"

generate_alert_result(stored, published) == "returned"

\* The response of analyze_network_traffic once generate_alert has ended:
\* the analysis (195), or the handler's 500 when an exception reached it (197-199).
analyze_response(a, result) ==
    IF result = "returned"
    THEN [code |-> 200, body |-> [analysis |-> a]]
    ELSE [code |-> 500, body |-> [error |-> "Internal server error"]]

\* Lines 113-128 and 195: mirror the alert to the database, publish it, return.
\* create_event and publish_event report a failure by what they return (the
\* callers of 241-245 and 446 test such results; the cache backend's
\* failures are "not thrown", section 4.3): stored and published are those
\* outcomes.  No event is written without a database.
mirror_alert(t, stored, published) ==
    /\ pc[t] = "mirror_alert"
    /\ dbConfigured \/ stored
    /\ cacheUp \/ ~published
    /\ LET events == IF dbConfigured
                     THEN <<[event |-> event_for(loc[t].alert_data), stored |-> stored]>>
                     ELSE <<>>
           msgs == <<[channel |-> "security_alerts", message |-> loc[t].alert,
                      delivered |-> published]>>
           io == [loc[t].io EXCEPT !.events = events, !.published = msgs]
           result == generate_alert_result(dbConfigured => stored, published)
           resp == analyze_response(loc[t].analysis, result)
       IN last' = Step("analyze_network_traffic", loc[t].traffic_data, resp.code,
                       IF resp.code = 200
                       THEN [analysis |-> loc[t].analysis, created |-> loc[t].created]
                       ELSE resp.body,
                       io)
    /\ pc' = [pc EXCEPT ![t] = "idle"]
    /\ loc' = [loc EXCEPT ![t] = Idle]
    /\ UNCHANGED <<scored, alerts, threat_indicators, network_stats, cache, cacheUp,
                   dbConfigured, clock, bg, prevSweep, sinceClear>>


\* ------------------------------------ PUT /api/alerts/<id> (269-288)
legal_status_or_stale(s) == s \in {"active", "resolved", "investigating", "stale"}

legal_status(s) == s \in {"active", "resolved", "investigating"}

StatusBodies ==
    { [status |-> s] : s \in {"active", "resolved", "investigating", "stale"} }
    \cup { EmptyDict }

\* The first alert of the list with the id, as the loop of 279-282 finds it.
first_of_list(as, alert_id) == 1

first_with_id(as, alert_id) ==
    CHOOSE i \in 1..Len(as) :
        /\ as[i].id = alert_id
        /\ \A j \in 1..(i - 1) : as[j].id # alert_id

\* data is the JSON object of the body; new_status is None when it has no
\* "status".
update_alert(alert_id, data) ==
    /\ LET new_status == Get(data, "status", "None") IN
       IF ~legal_status(new_status)
       THEN /\ last' = Step("update_alert", data, 400,
                            [error |-> "Invalid status"], NoIO)
            /\ UNCHANGED <<alerts, bg, prevSweep>>
       ELSE IF \E i \in 1..Len(alerts) : alerts[i].id = alert_id
       THEN LET i == first_with_id(alerts, alert_id) IN
            /\ alerts' = [alerts EXCEPT ![i].status = new_status]
            /\ bg' = Disturbed
            /\ prevSweep' = None
            /\ last' = Step("update_alert", data, 200,
                            alerts'[i], NoIO)
       ELSE /\ last' = Step("update_alert", data, 404,
                            [error |-> "Alert not found"], NoIO)
            /\ UNCHANGED <<alerts, bg, prevSweep>>
    /\ UNCHANGED <<scored, threat_indicators, network_stats, cache, cacheUp, dbConfigured,
                   clock, pc, loc, sinceClear>>

\* ------------------------------------ background_monitor (458-481)
\* time.sleep(60) returns and the loop enters its try block (460-461).
monitor_wake ==
    /\ bg.pc = "sleep"
    /\ bg' = [bg EXCEPT !.pc = "refresh"]
    /\ last' = Step("monitor_wake", EmptyDict, 0, EmptyDict, NoIO)
    /\ UNCHANGED <<scored, alerts, threat_indicators, network_stats, cache, cacheUp,
                   dbConfigured, clock, pc, loc, prevSweep, sinceClear>>

\* Line 463: last_updated is refreshed in the stats dict itself.
monitor_refresh_stats ==
    /\ bg.pc = "refresh"
    /\ network_stats' = [network_stats EXCEPT !.last_updated = clock]
    /\ sinceClear' = [sinceClear EXCEPT !.stats = NotTracked]
    /\ bg' = [bg EXCEPT !.pc = "cache_stats"]
    /\ last' = Step("monitor_refresh_stats", EmptyDict, 0, EmptyDict, NoIO)
    /\ UNCHANGED <<scored, alerts, threat_indicators, cache, cacheUp, dbConfigured,
                   clock, pc, loc, prevSweep>>

\* Lines 466-467: the stats dict, as it is now, is written through to the cache.
monitor_cache_stats ==
    /\ bg.pc = "cache_stats"
    /\ cache' = cache_set(cache, cacheUp, "stats", network_stats)
    /\ bg' = [bg EXCEPT !.pc = "cutoff"]
    /\ last' = Step("monitor_cache_stats", EmptyDict, 0, EmptyDict, NoIO)
    /\ UNCHANGED <<scored, alerts, threat_indicators, network_stats, cacheUp,
                   dbConfigured, clock, pc, loc, prevSweep, sinceClear>>

\* Line 470: cutoff_time = now - 24 hours; line 471 starts the iteration.
\* before is the alert list the sweep starts from.
monitor_cutoff ==
    /\ bg.pc = "cutoff"
    /\ bg' = [pc |-> "scan", i |-> 1, now |-> clock, cutoff |-> clock - STALE_HOURS,
              clean |-> TRUE, before |-> alerts]
    /\ last' = Step("monitor_cutoff", EmptyDict, 0, EmptyDict, NoIO)
    /\ UNCHANGED <<scored, alerts, threat_indicators, network_stats, cache, cacheUp,
                   dbConfigured, clock, pc, loc, prevSweep, sinceClear>>

\* Lines 472-474: is the alert active and older than the cutoff.
is_stale_ignoring_status(alert, cutoff) == alert.timestamp < cutoff

is_stale_at_cutoff(alert, cutoff) == alert.status = "active" /\ alert.timestamp <= cutoff

is_stale(alert, cutoff) == alert.status = "active" /\ alert.timestamp < cutoff

\* Where the iteration goes after the alert at position i was marked.
position_after_mark(i) == i + 1

\* Lines 471-474 for the alert at the iterator's position.
monitor_scan ==
    /\ bg.pc = "scan"
    /\ bg.i <= Len(alerts)
    /\ bg' = IF is_stale(alerts[bg.i], bg.cutoff)
             THEN [bg EXCEPT !.pc = "mark"]
             ELSE [bg EXCEPT !.i = @ + 1]
    /\ last' = Step("monitor_scan", EmptyDict, 0, EmptyDict, NoIO)
    /\ UNCHANGED <<scored, alerts, threat_indicators, network_stats, cache, cacheUp,
                   dbConfigured, clock, pc, loc, prevSweep, sinceClear>>

\* Line 475: alert['status'] = 'stale'.
monitor_mark ==
    /\ bg.pc = "mark"
    /\ alerts' = [alerts EXCEPT ![bg.i].status = "stale"]
    /\ bg' = [bg EXCEPT !.pc = "scan", !.i = position_after_mark(bg.i)]
    /\ last' = Step("monitor_mark", [position |-> bg.i], 0, EmptyDict, NoIO)
    /\ UNCHANGED <<scored, threat_indicators, network_stats, cache, cacheUp, dbConfigured,
                   clock, pc, loc, prevSweep, sinceClear>>

\* The iteration is exhausted: time.sleep(60) (477).  The step records the
\* sweep just made, when no request wrote to the alerts during it, and the
\* undisturbed sweep that ended before this one, if any.
monitor_sleep ==
    /\ bg.pc = "scan"
    /\ bg.i > Len(alerts)
    /\ bg' = Asleep
    /\ prevSweep' = IF bg.clean THEN Some([now |-> bg.now, alerts |-> alerts]) ELSE None
    /\ last' = Step("monitor_sleep",
                    [now |-> bg.now, clean |-> bg.clean, before |-> bg.before,
                     previous |-> prevSweep],
                    0, EmptyDict, NoIO)
    /\ UNCHANGED <<scored, alerts, threat_indicators, network_stats, cache, cacheUp,
                   dbConfigured, clock, pc, loc, sinceClear>>

\* Where the thread is after an exception raised inside the try block: the
\* handler of 479-481 logs it and sleeps, and the loop goes on.
monitor_terminates == "terminated"

monitor_resumes == "sleep"

\* Lines 479-481: a statement of the tick raises.
monitor_except ==
    /\ bg.pc \in {"refresh", "cache_stats", "cutoff", "scan", "mark"}
    /\ bg' = [Asleep EXCEPT !.pc = monitor_resumes]
    /\ prevSweep' = None
    /\ last' = Step("monitor_except", [at |-> bg.pc], 0, EmptyDict, NoIO)
    /\ UNCHANGED <<scored, alerts, threat_indicators, network_stats, cache, cacheUp,
                   dbConfigured, clock, pc, loc, sinceClear>>

\* ------------------------------------ environment
\* Time passes.  A handler and one pass of the monitor take far less than a
\* ClockStep: the clock moves between them, while the monitor sleeps.
advance_clock ==
    /\ clock + ClockStep <= MaxClock
    /\ \A t \in Threads : pc[t] = "idle"
    /\ bg.pc = "sleep"
    /\ clock' = clock + ClockStep
    /\ last' = Step("advance_clock", EmptyDict, 0, EmptyDict, NoIO)
    /\ UNCHANGED <<scored, alerts, threat_indicators, network_stats, cache, cacheUp,
                   dbConfigured, pc, loc, bg, prevSweep, sinceClear>>

\* The cache backend becomes unreachable, or reachable again.
cache_outage ==
    /\ cacheUp' = ~cacheUp
    /\ sinceClear' = [stats |-> NotTracked, indicators |-> NotTracked]
    /\ last' = Step("cache_outage", EmptyDict, 0, EmptyDict, NoIO)
    /\ UNCHANGED <<scored, alerts, threat_indicators, network_stats, cache, dbConfigured,
                   clock, pc, loc, bg, prevSweep>>

\* An entry's time-to-live runs out.
cache_expire(kind) ==
    /\ cache[kind] # None
    /\ cache' = [cache EXCEPT ![kind] = None]
    /\ sinceClear' = [sinceClear EXCEPT ![kind] = NotTracked]
    /\ last' = Step("cache_expire", [kind |-> kind], 0, EmptyDict, NoIO)
    /\ UNCHANGED <<scored, alerts, threat_indicators, network_stats, cacheUp, dbConfigured,
                   clock, pc, loc, bg, prevSweep>>


\* ------------------------------------ cache-aside reads (155-172, 290-305)
\* The history of reads since clear_cache('*'): first read, second read.
after_read(phase) ==
    IF phase = "cleared" THEN "first"
    ELSE IF phase = "first" THEN "second"
    ELSE NotTracked

\* Another request is inside a read of the same kind.
Overlapped(t, at) == \E u \in Threads \ {t} : pc[u] = at

\* Line 160: "if cached_stats" holds for a cached, non-empty stats dict.
stats_hit(cached) == cached # None /\ TruthyDict(cached[1])

\* Lines 160-163: the cached stats on a hit, the monitor's stats otherwise.
status_stats_without_fallback(cached, current) ==
    IF cached # None THEN cached[1] ELSE EmptyDict

status_stats(cached, current) == IF stats_hit(cached) THEN cached[1] ELSE current

\* Line 163 binds the monitor's stats dict itself, not a copy of it: what is
\* cached (165) and returned (169) later is the dict as it is then.
stats_copied_at_miss(at_miss, current) == at_miss

stats_loaded(at_miss, current) == current

status_body(source, stats) ==
    [source |-> source,
     stats |-> stats,
     active_alerts |-> Cardinality({i \in 1..Len(alerts) : alerts[i].status = "active"})]

\* Lines 159-161 and 167-172: read the cache; a hit is answered at once.
network_status(t) ==
    /\ Free(t)
    /\ LET cached == cache_get(cache, cacheUp, "stats") IN
       IF stats_hit(cached)
       THEN /\ last' = Step("network_status", EmptyDict, 200,
                            status_body("cache", status_stats(cached, network_stats)), NoIO)
            /\ sinceClear' = [sinceClear EXCEPT !.stats =
                                 IF Overlapped(t, "fill_stats") THEN NotTracked
                                 ELSE after_read(@)]
            /\ UNCHANGED <<pc, loc>>
       ELSE /\ pc' = [pc EXCEPT ![t] = "fill_stats"]
            /\ loc' = [loc EXCEPT ![t] =
                          [op |-> "status", cached |-> cached, at_miss |-> network_stats]]
            /\ last' = Step("stats_miss", EmptyDict, 0, EmptyDict, NoIO)
            /\ UNCHANGED sinceClear
    /\ UNCHANGED <<scored, alerts, threat_indicators, network_stats, cache, cacheUp,
                   dbConfigured, clock, bg, prevSweep>>

\* Lines 163-172 after a miss: cache the monitor's stats and answer with them.
\* The step records the stats as they were when the request missed.
fill_stats(t) ==
    /\ pc[t] = "fill_stats"
    /\ LET stats == status_stats(loc[t].cached, stats_loaded(loc[t].at_miss, network_stats))
       IN /\ cache' = cache_set(cache, cacheUp, "stats", stats)
          /\ last' = Step("network_status", [at_miss |-> loc[t].at_miss], 200,
                          status_body("origin", stats), NoIO)
    /\ sinceClear' = [sinceClear EXCEPT !.stats =
                         IF Overlapped(t, "fill_stats") THEN NotTracked ELSE after_read(@)]
    /\ pc' = [pc EXCEPT ![t] = "idle"]
    /\ loc' = [loc EXCEPT ![t] = Idle]
    /\ UNCHANGED <<scored, alerts, threat_indicators, network_stats, cacheUp,
                   dbConfigured, clock, bg, prevSweep>>

\* Line 295: "if cached_indicators" holds for a non-empty cached list.
indicators_hit(cached) == TruthySeq(cached)

\* Lines 294-296 and 302-305: read the cache; a hit is answered at once.
get_threat_indicators(t) ==
    /\ Free(t)
    /\ LET cached == cached_threat_indicators(cache, cacheUp) IN
       IF indicators_hit(cached)
       THEN /\ last' = Step("get_threat_indicators", EmptyDict, 200,
                            [source |-> "cache", indicators |-> cached,
                             total |-> Len(cached)], NoIO)
            /\ sinceClear' = [sinceClear EXCEPT !.indicators =
                                 IF Overlapped(t, "fill_indicators") THEN NotTracked
                                 ELSE after_read(@)]
            /\ UNCHANGED <<pc, loc>>
       ELSE /\ pc' = [pc EXCEPT ![t] = "fill_indicators"]
            /\ loc' = [loc EXCEPT ![t] = [op |-> "indicators"]]
            /\ last' = Step("indicators_miss", EmptyDict, 0, EmptyDict, NoIO)
            /\ UNCHANGED sinceClear
    /\ UNCHANGED <<scored, alerts, threat_indicators, network_stats, cache, cacheUp,
                   dbConfigured, clock, bg, prevSweep>>

\* Lines 298-305 after a miss: cache the monitor's list, as it is now, and
\* answer with it.
fill_indicators(t) ==
    /\ pc[t] = "fill_indicators"
    /\ cache' = cache_set(cache, cacheUp, "indicators", threat_indicators)
    /\ last' = Step("get_threat_indicators", EmptyDict, 200,
                    [source |-> "origin", indicators |-> threat_indicators,
                     total |-> Len(threat_indicators)], NoIO)
    /\ sinceClear' = [sinceClear EXCEPT !.indicators =
                         IF Overlapped(t, "fill_indicators") THEN NotTracked
                         ELSE after_read(@)]
    /\ pc' = [pc EXCEPT ![t] = "idle"]
    /\ loc' = [loc EXCEPT ![t] = Idle]
    /\ UNCHANGED <<scored, alerts, threat_indicators, network_stats, cacheUp,
                   dbConfigured, clock, bg, prevSweep>>

\* ------------------------------------ POST /api/cache/clear (441-455)
Patterns == {"*", "session:*"}

\* cache_manager.clear_cache(pattern): the entries left, none of the two
\* kinds' keys matching any pattern but '*'.
cleared(c, up, pattern) == IF up /\ pattern = "*" THEN EmptyCache ELSE c

clear_cache(pattern) ==
    /\ cache' = cleared(cache, cacheUp, pattern)
    /\ sinceClear' = IF cacheUp /\ pattern = "*"
                     THEN [stats |-> "cleared", indicators |-> "cleared"]
                     ELSE sinceClear
    /\ last' = Step("clear_cache", [pattern |-> pattern], 200,
                    [success |-> cacheUp, pattern |-> pattern], NoIO)
    /\ UNCHANGED <<scored, alerts, threat_indicators, network_stats, cacheUp, dbConfigured,
                   clock, pc, loc, bg, prevSweep>>

\* ------------------------------------ POST /api/threats/indicators (307-342)
IndicatorBodies ==
    { [type |-> "ip", value |-> "10.0.0.1", description |-> "scanner"],
      [type |-> "ip", value |-> "10.0.0.1"] }

required_fields == <<"type", "value", "description">>

next_indicator_id(is) == Len(is) + 1

\* Lines 318-326.
new_indicator(is, data, now) ==
    [id |-> next_indicator_id(is),
     timestamp |-> now,
     type |-> data.type,
     value |-> data.value,
     description |-> data.description,
     confidence |-> Get(data, "confidence", "medium"),
     active |-> TRUE]

\* Lines 311-326: validate the body and build the indicator.
add_threat_indicator(t, data) ==
    /\ Free(t)
    /\ IF \E k \in 1..Len(required_fields) : required_fields[k] \notin DOMAIN data
       THEN /\ last' = Step("add_threat_indicator", data, 400,
                            [error |-> "Missing required field"], NoIO)
            /\ UNCHANGED <<pc, loc>>
       ELSE /\ Len(threat_indicators) < MaxIndicators
            /\ pc' = [pc EXCEPT ![t] = "append_indicator"]
            /\ loc' = [loc EXCEPT ![t] =
                          [op |-> "add_indicator", data |-> data,
                           indicator |-> new_indicator(threat_indicators, data, clock)]]
            /\ last' = Step("new_indicator", data, 0, EmptyDict, NoIO)
    /\ UNCHANGED <<scored, alerts, threat_indicators, network_stats, cache, cacheUp,
                   dbConfigured, clock, bg, prevSweep, sinceClear>>

\* Line 328.
append_indicator(t) ==
    /\ pc[t] = "append_indicator"
    /\ threat_indicators' = Append(threat_indicators, loc[t].indicator)
    /\ pc' = [pc EXCEPT ![t] = "store_indicator"]
    /\ sinceClear' = [sinceClear EXCEPT !.indicators = NotTracked]
    /\ last' = Step("append_indicator", loc[t].data, 0, EmptyDict, NoIO)
    /\ UNCHANGED <<scored, alerts, network_stats, cache, cacheUp, dbConfigured, clock, loc,
                   bg, prevSweep>>

\* How threat_intelligence.add_indicator ends given whether the store took
\* the record: it reports a failure by what it returns, and line 332 discards
\* the result.
add_indicator_raises_unstored(stored) == IF stored THEN "returned" ELSE "raised"

add_indicator_result(stored) == "returned"

\* Line 336: the list handed to cache_threat_indicators is the monitor's
\* list itself, as it is at the time of the write.
snapshot_of_new_only(indicator, current) == <<indicator>>

snapshot_to_cache(indicator, current) == current

\* Lines 330-338: mirror to the database, overwrite the cached list, return;
\* lines 340-342 when an exception reaches the handler.
store_indicator(t, stored) ==
    /\ pc[t] = "store_indicator"
    /\ dbConfigured \/ stored
    /\ LET io == [NoIO EXCEPT !.events =
                     IF dbConfigured
                     THEN <<[event |-> loc[t].data, stored |-> stored]>>
                     ELSE <<>>]
       IN IF add_indicator_result(stored) = "returned"
          THEN /\ cache' = cache_set(cache, cacheUp, "indicators",
                                     snapshot_to_cache(loc[t].indicator, threat_indicators))
               /\ last' = Step("add_threat_indicator", loc[t].data, 201,
                               loc[t].indicator, io)
          ELSE /\ cache' = cache
               /\ last' = Step("add_threat_indicator", loc[t].data, 500,
                               [error |-> "Internal server error"], io)
    /\ sinceClear' = [sinceClear EXCEPT !.indicators = NotTracked]
    /\ pc' = [pc EXCEPT ![t] = "idle"]
    /\ loc' = [loc EXCEPT ![t] = Idle]
    /\ UNCHANGED <<scored, alerts, threat_indicators, network_stats, cacheUp,
                   dbConfigured, clock, bg, prevSweep>>

\* ------------------------------------ specifications
\* Requests that score traffic and raise alerts.
IngestNext ==
    \/ \E t \in Threads, td \in TrafficData : analyze_network_traffic(t, td)
    \/ \E t \in Threads : generate_alert(t)
    \/ \E t \in Threads : append_alert(t)
    \/ \E t \in Threads, stored \in BOOLEAN, published \in BOOLEAN :
           mirror_alert(t, stored, published)

AlertNext ==
    \E alert_id \in 1..(MaxAlerts + 1), data \in StatusBodies :
        update_alert(alert_id, data)

MonitorNext ==
    \/ monitor_wake
    \/ monitor_refresh_stats
    \/ monitor_cache_stats
    \/ monitor_cutoff
    \/ monitor_scan
    \/ monitor_mark
    \/ monitor_sleep

CacheNext ==
    \/ \E kind \in {"stats", "indicators"} : cache_expire(kind)
    \/ \E t \in Threads : network_status(t)
    \/ \E t \in Threads : fill_stats(t)
    \/ \E t \in Threads : get_threat_indicators(t)
    \/ \E t \in Threads : fill_indicators(t)
    \/ \E pattern \in Patterns : clear_cache(pattern)

IndicatorNext ==
    \/ \E t \in Threads, data \in IndicatorBodies : add_threat_indicator(t, data)
    \/ \E t \in Threads : append_indicator(t)
    \/ \E t \in Threads, stored \in BOOLEAN : store_indicator(t, stored)

\* The alert life cycle: concurrent analyze and update requests, the
\* background monitor and time.
Next ==
    \/ IngestNext
    \/ AlertNext
    \/ MonitorNext
    \/ advance_clock

Spec == Init /\ [][Next]_vars


\* The cache-aside reads and writes: status and indicator requests, cache
\* clearing, expiry and outages, new indicators, and the monitor's refresh
\* of the stats (with no alert to sweep).
NextCache ==
    \/ CacheNext
    \/ IndicatorNext
    \/ cache_outage
    \/ monitor_wake
    \/ monitor_refresh_stats
    \/ monitor_cache_stats
    \/ monitor_cutoff
    \/ monitor_sleep
    \/ advance_clock

SpecCache == Init /\ [][NextCache]_vars

\* The same requests and monitor steps with the cache backend reachable
\* throughout.
NextWarm ==
    \/ CacheNext
    \/ IndicatorNext
    \/ monitor_wake
    \/ monitor_refresh_stats
    \/ monitor_cache_stats
    \/ monitor_cutoff
    \/ monitor_sleep
    \/ advance_clock

SpecWarm == Init /\ [][NextWarm]_vars

\* The monitor loop with a statement of a tick raising at any point, next to
\* the requests that create the alerts it sweeps.  The monitor is a thread
\* of its own: it is scheduled again and again and time.sleep returns.
MonitorTick == MonitorNext \/ monitor_except

NextMonitor ==
    \/ MonitorTick
    \/ IngestNext
    \/ advance_clock

SpecMonitor == Init /\ [][NextMonitor]_vars /\ WF_vars(MonitorTick)

\* analyze_traffic on its own, for every observation and indicator snapshot.
Choices(values) == {None} \cup {Some(v) : v \in values}

\* The JSON object holding the fields that are given.
Observation(ip, cc, fa, ports) ==
    [k \in {f \in {"source_ip", "connection_count", "failed_auth_attempts", "unusual_ports"} :
              \/ f = "source_ip" /\ ip # None
              \/ f = "connection_count" /\ cc # None
              \/ f = "failed_auth_attempts" /\ fa # None
              \/ f = "unusual_ports" /\ ports # None}
        |-> IF k = "source_ip" THEN ip[1]
            ELSE IF k = "connection_count" THEN cc[1]
            ELSE IF k = "failed_auth_attempts" THEN fa[1]
            ELSE ports[1]]

Observations ==
    { Observation(ip, cc, fa, ports) :
        ip \in Choices(IPs \cup {""}),
        cc \in Choices({VOLUME_LIMIT, VOLUME_LIMIT + 1}),
        fa \in Choices({AUTH_LIMIT, AUTH_LIMIT + 1}),
        ports \in Choices({<<>>, <<22>>}) }

\* The indicator lists the monitor can hold, and the snapshots of them the
\* cache can hold.
IndicatorLists ==
    { <<>>,
      <<new_indicator(<<>>, [type |-> "ip", value |-> "10.0.0.1", description |-> "scanner"], 0)>> }

\* The alert lists the monitor can hold when the scorer is called.
AlertLists ==
    { <<>>,
      <<new_alert(<<>>, [severity |-> "medium", type |-> "traffic_analysis",
                         description |-> 80, source_ip |-> "10.0.0.1",
                         destination_ip |-> "unknown"], 0)>> }

InitScorer ==
    /\ alerts \in AlertLists
    /\ threat_indicators \in IndicatorLists
    /\ network_stats = [total_connections |-> 0, suspicious_connections |-> 0,
                        blocked_attempts |-> 0, last_updated |-> 0]
    /\ cache \in { [stats |-> None, indicators |-> snapshot] :
                      snapshot \in {None, Some(<<>>), Some(threat_indicators)} }
    /\ cacheUp \in BOOLEAN
    /\ dbConfigured \in BOOLEAN
    /\ clock = 0
    /\ pc = [t \in Threads |-> "idle"]
    /\ loc = [t \in Threads |-> Idle]
    /\ bg = Asleep
    /\ prevSweep = None
    /\ sinceClear = [stats |-> NotTracked, indicators |-> NotTracked]
    /\ scored = None
    /\ last = Step("init", EmptyDict, 0, EmptyDict, NoIO)

\* NetworkMonitor.analyze_traffic(traffic_data) (53-96).  With keep, the
\* call is recorded, with the snapshot its lookup read and the alerts and
\* stats of the time, for later calls to be compared with.
score_traffic(td, keep) ==
    /\ LET a == analyze_traffic(td, cache, cacheUp, clock)
       IN /\ last' = Step("analyze_traffic", td, 0, a,
                          [NoIO EXCEPT !.metrics = metric_calls(td, a, dbConfigured)])
          /\ scored' = IF keep
                       THEN Some([req |-> td, analysis |-> a,
                                  snapshot |-> cached_threat_indicators(cache, cacheUp),
                                  alerts |-> alerts, stats |-> network_stats])
                       ELSE scored
    /\ UNCHANGED <<alerts, threat_indicators, network_stats, cache, cacheUp,
                   dbConfigured, clock, pc, loc, bg, prevSweep, sinceClear>>

NextScorer == \E td \in Observations : score_traffic(td, FALSE)

SpecScorer == InitScorer /\ [][NextScorer]_vars

\* analyze_traffic called again and again while time passes, the monitor
\* refreshes the stats and sweeps, alerts are updated and the cached
\* indicator snapshot expires.
NextReplay ==
    \/ \E td \in TrafficData, keep \in BOOLEAN : score_traffic(td, keep)
    \/ AlertNext
    \/ MonitorNext
    \/ cache_expire("indicators")
    \/ advance_clock

\* The replay starts with an alert held, the cache reachable and no database.
InitReplay == InitScorer /\ alerts # <<>> /\ cacheUp /\ ~dbConfigured

SpecReplay == InitReplay /\ [][NextReplay]_vars

\* ------------------------------------------------------------------ claims
\* What the claims say, written without the operators of the model.
AnalyzeDone == last.op = "analyze_network_traffic" /\ last.code = 200

Stale(as) == {i \in 1..Len(as) : as[i].status = "stale"}

\* C1: the ids of the alerts created are exactly 1..N, without duplicates
\* or gaps, whatever the interleaving of the concurrent creations.
C1_IdsAreOneToN == {alerts[i].id : i \in 1..Len(alerts)} = 1..Len(alerts)

\* C2: an update to a status outside {active, investigating, resolved}
\* ('stale' included) is answered "Invalid status" and changes no alert,
\* whatever the id; an alert becomes stale only by the monitor's write.
C2_StaleOnlyBySweep ==
    [][ /\ ( /\ last'.op = "update_alert"
             /\ Get(last'.req, "status", "None") \notin {"active", "investigating", "resolved"} )
           => (last'.code = 400 /\ alerts' = alerts)
        /\ \A i \in Stale(alerts') :
               (i > Len(alerts) \/ alerts[i].status # "stale") => last'.op = "monitor_mark"
      ]_vars

C2_Witness ==
    /\ last.op = "update_alert"
    /\ last.req = [status |-> "stale"]
    /\ last.code = 400
    /\ Stale(alerts) # {}

\* C3: once an alert is stale it stays stale.
C3_StaleIsTerminal ==
    [][ \A i \in Stale(alerts) : alerts'[i].status = "stale" ]_vars

\* C4: a handled observation creates one alert when its score is above 50
\* and none otherwise; the alert is 'high' above 80 and 'medium' up to 80,
\* of type 'traffic_analysis', created 'active' and held by the alert list.
C4_AlertIffAboveThreshold ==
    AnalyzeDone =>
        LET score == last.body.analysis.risk_score
            created == last.body.created
        IN /\ Len(created) = (IF score > 50 THEN 1 ELSE 0)
           /\ \A k \in 1..Len(created) :
                  /\ created[k].alert.severity = (IF score > 80 THEN "high" ELSE "medium")
                  /\ created[k].alert.type = "traffic_analysis"
                  /\ created[k].alert.status = "active"
                  /\ created[k].pos \in 1..Len(alerts)
                  /\ [alerts[created[k].pos] EXCEPT !.status = "active"] = created[k].alert

C4_Witness ==
    /\ AnalyzeDone
    /\ last.body.analysis.risk_score = 80
    /\ Len(last.body.created) = 1
    /\ last.body.created[1].alert.severity = "medium"

\* C6: a sweep that follows an undisturbed sweep made at the same time, with
\* no write to the alerts in between, leaves the alerts as the first one left
\* them; the monitor never writes to an alert that is already stale.
C6_SweepIdempotent ==
    /\ ( /\ last.op = "monitor_sleep"
         /\ last.req.previous # <<>>
         /\ last.req.previous[1].now = last.req.now )
       => alerts = last.req.previous[1].alerts
    /\ bg.pc = "mark" => alerts[bg.i].status # "stale"

C6_Witness ==
    /\ last.op = "monitor_sleep"
    /\ last.req.previous # <<>>
    /\ last.req.previous[1].now = last.req.now
    /\ Stale(alerts) # {}

MirrorFailed ==
    \/ \E k \in 1..Len(last.io.events) : ~last.io.events[k].stored
    \/ \E k \in 1..Len(last.io.published) : ~last.io.published[k].delivered

\* C7: when create_event or the publish fails, the request still ends
\* normally and the alert is in the alert list with the id it was given,
\* created 'active'.
C7_AlertKeptWhenMirrorFails ==
    (last.op = "analyze_network_traffic" /\ MirrorFailed) =>
        /\ last.code = 200
        /\ Len(last.body.created) = 1
        /\ last.body.created[1].pos \in 1..Len(alerts)
        /\ alerts[last.body.created[1].pos].id = last.body.created[1].alert.id
        /\ last.body.created[1].alert.status = "active"

C7_Witness ==
    /\ AnalyzeDone
    /\ Len(last.io.events) = 1
    /\ ~last.io.events[1].stored
    /\ ~last.io.published[1].delivered
    /\ Len(last.body.created) = 1

\* The score of the rules that read the observation alone.
FieldScore(td) ==
    (IF "connection_count" \in DOMAIN td /\ td.connection_count > 1000 THEN 30 ELSE 0)
    + (IF "failed_auth_attempts" \in DOMAIN td /\ td.failed_auth_attempts > 10 THEN 50 ELSE 0)
    + (IF "unusual_ports" \in DOMAIN td /\ td.unusual_ports # <<>> THEN 20 ELSE 0)

\* C8: every observation is answered with its assessment, also when the
\* alert it raised could not be mirrored or published.
C8_AssessmentReturned ==
    (last.op = "analyze_network_traffic" /\ DOMAIN last.req # {}) =>
        /\ last.code = 200
        /\ last.body.analysis.risk_score \in {FieldScore(last.req), FieldScore(last.req) + 80}

C8_Witness ==
    /\ AnalyzeDone
    /\ last.body.analysis.risk_score > 50
    /\ Len(last.io.published) = 1
    /\ ~last.io.published[1].delivered

\* C9: every handled observation records exactly one sample, named
\* 'traffic_analysis_risk_score', with the score returned and the source_ip.
C9_AlwaysOneMetric ==
    AnalyzeDone =>
        /\ Len(last.io.metrics) = 1
        /\ last.io.metrics[1].metric_name = "traffic_analysis_risk_score"
        /\ last.io.metrics[1].metric_value = last.body.analysis.risk_score
        /\ "source_ip" \in DOMAIN last.req
               => last.io.metrics[1].tags.source_ip = last.req.source_ip

\* C9 as amended: with a database configured, exactly one such sample, its
\* tag 'unknown' for an observation without source_ip; without one, none.
C9_OneMetricWhenConfigured ==
    AnalyzeDone =>
        IF dbConfigured
        THEN /\ Len(last.io.metrics) = 1
             /\ last.io.metrics[1].metric_name = "traffic_analysis_risk_score"
             /\ last.io.metrics[1].metric_value = last.body.analysis.risk_score
             /\ last.io.metrics[1].tags.source_ip =
                    (IF "source_ip" \in DOMAIN last.req THEN last.req.source_ip ELSE "unknown")
        ELSE last.io.metrics = <<>>

C9_Witness ==
    /\ AnalyzeDone
    /\ dbConfigured
    /\ last.body.analysis.risk_score = 50
    /\ last.body.created = <<>>
    /\ Len(last.io.metrics) = 1
    /\ last.io.metrics[1].metric_value = 50


\* The rules an observation triggers, in the order of the code; the first
\* one by the cached indicator snapshot the lookup reads.
KnownSource(td) ==
    /\ "source_ip" \in DOMAIN td
    /\ cacheUp
    /\ cache.indicators # <<>>
    /\ \E i \in 1..Len(cache.indicators[1]) : cache.indicators[1][i].value = td.source_ip

RuleHolds(td) ==
    << KnownSource(td),
       "connection_count" \in DOMAIN td /\ td.connection_count > 1000,
       "failed_auth_attempts" \in DOMAIN td /\ td.failed_auth_attempts > 10,
       "unusual_ports" \in DOMAIN td /\ td.unusual_ports # <<>> >>

RuleWeight == <<80, 30, 50, 20>>

RuleLabel(td) ==
    << IF "source_ip" \in DOMAIN td /\ td.source_ip = "10.0.0.1"
       THEN "Known threat IP: 10.0.0.1" ELSE "Known threat IP: 10.0.0.2",
       "High connection volume",
       "Multiple failed authentication attempts",
       "Unusual port activity detected" >>

RuleAdvice ==
    << "Block IP immediately",
       "Investigate source IP for DDoS activity",
       "Implement rate limiting and block suspicious IPs",
       "Review firewall rules and port access" >>

\* The entries of texts whose rule holds, in order.
RECURSIVE Selected(_, _, _)
Selected(holds, texts, k) ==
    IF k > 4 THEN <<>>
    ELSE (IF holds[k] THEN <<texts[k]>> ELSE <<>>) \o Selected(holds, texts, k + 1)

RECURSIVE WeightSum(_, _)
WeightSum(holds, k) ==
    IF k > 4 THEN 0
    ELSE (IF holds[k] THEN RuleWeight[k] ELSE 0) + WeightSum(holds, k + 1)

\* C5: the score is the sum of the weights of the rules that hold, absent
\* fields counting as zero or empty, and the labels and recommendations are
\* those of the rules that hold, one each, in the order of the rules.
C5_ScoreIsSumOfTriggeredRules ==
    last.op = "analyze_traffic" =>
        /\ last.body.risk_score = WeightSum(RuleHolds(last.req), 1)
        /\ last.body.threats_detected = Selected(RuleHolds(last.req), RuleLabel(last.req), 1)
        /\ last.body.recommendations = Selected(RuleHolds(last.req), RuleAdvice, 1)

C5_Witness ==
    /\ last.op = "analyze_traffic"
    /\ last.req = [connection_count |-> 1001, failed_auth_attempts |-> 11]
    /\ last.body.risk_score = 80
    /\ Len(last.body.threats_detected) = 2
    /\ Len(last.body.recommendations) = 2

ReadOf(kind) == IF kind = "stats" THEN "network_status" ELSE "get_threat_indicators"

Authoritative(kind) == IF kind = "stats" THEN network_stats ELSE threat_indicators

Returned(kind) == IF kind = "stats" THEN last.body.stats ELSE last.body.indicators

\* C10: for both kinds, the first read after clear_cache('*') is served from
\* the authoritative state and fills the cache, and the read after it, with
\* no write in between, is served from the cache with the authoritative value.
C10_CacheAside ==
    \A kind \in {"stats", "indicators"} :
        /\ (last.op = ReadOf(kind) /\ sinceClear[kind] = "first")
               => /\ last.body.source = "origin"
                  /\ Returned(kind) = Authoritative(kind)
        /\ (last.op = ReadOf(kind) /\ sinceClear[kind] = "second")
               => /\ last.body.source = "cache"
                  /\ Returned(kind) = Authoritative(kind)

\* C11: while the cache backend is unreachable, a status request is answered
\* normally with the monitor's current stats, served from the origin.
C11_StatsServedDuringOutage ==
    (last.op = "network_status" /\ ~cacheUp) =>
        /\ last.code = 200
        /\ last.body.source = "origin"
        /\ last.body.stats = network_stats

C11_Witness ==
    /\ last.op = "network_status"
    /\ ~cacheUp
    /\ last.code = 200
    /\ cache.stats # <<>>
    /\ cache.stats[1] # network_stats
    /\ last.body.stats.last_updated > 0

\* C12: the ids of the indicators held are pairwise distinct, whatever the
\* interleaving of the concurrent submissions.
C12_IndicatorIdsDistinct ==
    \A i, j \in 1..Len(threat_indicators) :
        i # j => threat_indicators[i].id # threat_indicators[j].id

AddInFlight == \E t \in Threads : pc[t] \in {"append_indicator", "store_indicator"}

\* C13: with the cache reachable, when a submission has returned and none is
\* in flight, the cached snapshot is the monitor's indicator list, the new
\* indicator included; a snapshot present with none in flight is never
\* behind the list.
C13_IndicatorsWrittenThrough ==
    /\ (last.op = "add_threat_indicator" /\ last.code = 201 /\ ~AddInFlight)
           => /\ cache.indicators = <<threat_indicators>>
              /\ \E i \in 1..Len(threat_indicators) : threat_indicators[i] = last.body
    /\ (cache.indicators # <<>> /\ ~AddInFlight)
           => cache.indicators[1] = threat_indicators

C13_Witness ==
    /\ last.op = "add_threat_indicator"
    /\ last.code = 201
    /\ ~AddInFlight
    /\ Len(threat_indicators) = 2
    /\ cache.indicators = <<threat_indicators>>

\* C14: when the database does not take the indicator, the submission is
\* still answered with the created indicator, which is in the monitor's list
\* and, with the cache reachable, in the cached snapshot written from it.
C14_IndicatorKeptWhenStoreFails ==
    ( /\ last.op = "add_threat_indicator"
      /\ \E k \in 1..Len(last.io.events) : ~last.io.events[k].stored )
        => /\ last.code = 201
           /\ last.body.value = last.req.value
           /\ \E i \in 1..Len(threat_indicators) : threat_indicators[i] = last.body
           /\ cacheUp => /\ cache.indicators # <<>>
                         /\ \E i \in 1..Len(cache.indicators[1]) :
                                cache.indicators[1][i] = last.body

C14_Witness ==
    /\ last.op = "add_threat_indicator"
    /\ last.code = 201
    /\ Len(last.io.events) = 1
    /\ ~last.io.events[1].stored
    /\ cacheUp
    /\ cache.indicators = <<threat_indicators>>

\* C20: with the cache reachable, when the monitor sleeps and no status
\* request is between its miss and its write, a cached stats entry is the
\* monitor's stats.
C20_CachedStatsCurrent ==
    ( /\ bg.pc = "sleep"
      /\ \A t \in Threads : pc[t] # "fill_stats"
      /\ cache.stats # <<>> )
        => cache.stats[1] = network_stats

C20_Witness ==
    /\ last.op = "network_status"
    /\ last.body.source = "origin"
    /\ last.req.at_miss.last_updated < last.body.stats.last_updated
    /\ bg.pc = "sleep"
    /\ \A t \in Threads : pc[t] # "fill_stats"
    /\ cache.stats = <<network_stats>>

\* C15: after an error at any point of a tick the monitor starts another
\* tick; a tick starts only when the monitor sleeps, the one before it over.
C15_LoopSurvivesErrors ==
    /\ (last.op = "monitor_except") ~> (bg.pc = "refresh")
    /\ [][last'.op = "monitor_wake" => (bg.pc = "sleep" /\ bg'.pc = "refresh")]_vars

C15_Witness ==
    /\ last.op = "monitor_except"
    /\ last.req.at = "mark"
    /\ bg.pc = "sleep"
    /\ Len(alerts) > 0

\* What a PUT of the body data for the alert id must do to the alerts held.
UpdateEffect(alert_id, data) ==
    LET status == IF "status" \in DOMAIN data THEN data.status ELSE "None"
        legal == status \in {"active", "investigating", "resolved"}
        known == \E i \in 1..Len(alerts) : alerts[i].id = alert_id
    IN /\ ~legal => /\ last'.code = 400
                    /\ last'.body = [error |-> "Invalid status"]
                    /\ alerts' = alerts
       /\ (legal /\ ~known) => /\ last'.code = 404
                               /\ last'.body = [error |-> "Alert not found"]
                               /\ alerts' = alerts
       /\ (legal /\ known) =>
              /\ last'.code = 200
              /\ \E i \in 1..Len(alerts) :
                     /\ alerts[i].id = alert_id
                     /\ alerts' = [alerts EXCEPT ![i].status = status]
                     /\ last'.body = alerts'[i]

\* C16: an update with an illegal status is refused as invalid and one with a
\* legal status for an unknown id as not found, both leaving every alert as
\* it was; an update with a legal status for a known id sets the status of
\* one alert with that id and nothing else: the other fields of that alert,
\* the other alerts, their number and their order stay.
C16_UpdateChangesOneStatus ==
    [][ last'.op = "update_alert" =>
            \A alert_id \in 1..(MaxAlerts + 1) :
                update_alert(alert_id, last'.req) => UpdateEffect(alert_id, last'.req) ]_vars

C16_Witness ==
    /\ last.op = "update_alert"
    /\ last.code = 200
    /\ Len(alerts) = 2
    /\ last.body.id = 2
    /\ last.body.status = "investigating"
    /\ alerts[2] = last.body
    /\ alerts[1].id = 1
    /\ alerts[1].status = "active"

\* What one sweep made at time now leaves of the alert it found as a.
Swept(a, now) ==
    IF a.status = "active" /\ now - a.timestamp > 24
    THEN [id |-> a.id, timestamp |-> a.timestamp, severity |-> a.severity,
          type |-> a.type, description |-> a.description, source_ip |-> a.source_ip,
          destination_ip |-> a.destination_ip, status |-> "stale"]
    ELSE a

\* C18: a sweep during which no request wrote to the alerts leaves as many
\* alerts as it found, each as it was but for the status of those that were
\* active and more than 24 hours old, which is 'stale'.
C18_SweepMarksExactlyTheOld ==
    (last.op = "monitor_sleep" /\ last.req.clean) =>
        /\ Len(alerts) = Len(last.req.before)
        /\ \A i \in 1..Len(alerts) : alerts[i] = Swept(last.req.before[i], last.req.now)

C18_Witness ==
    /\ last.op = "monitor_sleep"
    /\ last.req.clean
    /\ Len(alerts) = 2
    /\ last.req.before[1].status = "active"
    /\ alerts[1].status = "stale"
    /\ last.req.before[2].status = "resolved"
    /\ alerts[2].status = "resolved"

\* C19: the monitor writes 'stale' only to an alert that is 'active' when the
\* write is made.
C19_StaleWrittenToActiveOnly ==
    bg.pc = "mark" => alerts[bg.i].status = "active"

\* The indicator snapshot a lookup made now reads.
VisibleSnapshot == IF cacheUp /\ cache.indicators # <<>> THEN cache.indicators[1] ELSE <<>>

====
